---- MODULE Spec2Model ----
(***************************************************************************)
(* The main process of debugtron (src/main/index.ts): the window, the      *)
(* startDebugging command and the callbacks it registers on the spawned    *)
(* process (stdout, stderr, the delayed endpoint probe, close).            *)
(*                                                                         *)
(* Node runs every callback to completion on one event loop, so each       *)
(* callback is one action.  What the environment does (the child process   *)
(* writes, exits, answers an HTTP request; the user closes the window) is  *)
(* drawn nondeterministically.                                             *)
(***************************************************************************)
EXTENDS Integers, Sequences, FiniteSets, TLC

\* ------------------------------------------------------------- bounds
MaxLaunch == 2      \* startDebugging commands received
NumPorts == 4       \* largest size of the pool's port range
MaxStderr == 2      \* stderr chunks the processes write, in all
MaxStdout == 1      \* stdout chunks the processes write, in all

Sessions == 1..MaxLaunch
Platforms == {"win32", "darwin", "linux"}

VARIABLES
    platform,    \* process.platform
    app,         \* "loading" | "ready" | "quitting" | "quit": the Electron app
    mainWindow,  \* TRUE: a BrowserWindow; FALSE: null
    poolSize,    \* size of the port range of portPool
    targets,     \* <<json0, json1>>: what the two endpoints of a process serve
    held,        \* ports portPool has handed out and not taken back
    calls,       \* startDebugging commands received so far
    pc,          \* per call: position in the async function startDebugging
    ports,       \* per call: <<nodePort, windowPort>> as far as acquired
    proc,        \* per call: the child process sp
    fetched,     \* per call: the closure variable `fetched`
    pending,     \* per call: timers set by setTimeout and not yet fired
    rounds,      \* per call: times the timer callback queried the endpoints
    probe,       \* per call: the Promise.all of the last round of fetches
    errChunks,   \* per call: stderr chunks delivered
    outChunks,   \* per call: stdout chunks delivered
    events,      \* per call: lifecycle events sent to the window, in order
    logs,        \* per call and stream: log events sent to the window, in order
    uncaught,    \* per call: errors no handler caught
    instanceId,  \* per call: <<the closure variable `instanceId`>>, once set
    tags,        \* per call: the instanceIds its sends have carried
    json,        \* per call: <<json0, json1>>, what Promise.all resolved to
    pages,       \* per call: the pages sent with appStarted
    fs,          \* per install root: what listing the directory yields
    dpc,         \* position in the getApps handler
    appPaths,    \* getApps: the result of getPossibleAppPaths()
    todo,        \* getApps: the paths the loop has still to visit
    infos,       \* getApps: the array `infos`
    reply        \* getApps: <<e.returnValue>>, once set

vars == <<platform, app, mainWindow, poolSize, targets, held, calls, pc, ports, proc,
          fetched, pending, rounds, probe, errChunks, outChunks, events,
          logs, uncaught, instanceId, tags, json, pages, fs, dpc, appPaths,
          todo, infos, reply>>

\* ------------------------------------------------------------ helpers
Range(s) == {s[k] : k \in 1..Len(s)}

Min(S) == CHOOSE x \in S : \A y \in S : x <= y

RECURSIVE Total(_, _)
Total(f, n) == IF n = 0 THEN 0 ELSE f[n] + Total(f, n - 1)

Has(seq, e) == \E k \in 1..Len(seq) : seq[k] = e

\* ----------------------------------------------------------- PortPool
\* portPool.getPort(): linear scan from the base of the range, skipping held
\* ports; <<>> stands for the PoolExhausted failure.  Ports are numbered by
\* their offset in the range.
getPort(h, size) ==
    LET free == {p \in 1..size : p \notin h}
    IN  IF free = {} THEN <<>> ELSE <<Min(free)>>

\* Mutant: the second port is a copy of the first instead of a second getPort().
AcquirePortsShared(h, size) ==
    LET n == getPort(h, size)
    IN  [ports |-> n \o n, held |-> h \cup Range(n)]

\* const nodePort = portPool.getPort(); const windowPort = portPool.getPort()
\* Both calls run in one synchronous stretch.  A getPort() that throws ends
\* the function there: the ports acquired so far stay held.
AcquirePorts(h, size) ==
    LET n == getPort(h, size)
        h1 == h \cup Range(n)
        w == IF n = <<>> THEN <<>> ELSE getPort(h1, size)
    IN  [ports |-> n \o w, held |-> h1 \cup Range(w)]

\* Mutant: a failed acquisition does not stop the launch.
BothAcquiredAlways(acq) == TRUE

\* The function goes on to resolve the executable and spawn only if neither
\* getPort() threw.
BothAcquired(acq) == Len(acq.ports) = 2

\* ------------------------------------------------------- getExecutable
\* listing: what fs.promises.readdir(exesDir) yields on darwin.
Listings == {"entries", "empty", "error"}

getExecutable(plat, listing) ==
    CASE plat = "win32" -> "resolved"
      [] plat = "darwin" ->
            \* readdir rejects, or [exe] is undefined and path.join throws
            IF listing = "entries" THEN "resolved" ELSE "thrown"
      [] OTHER -> "thrown"

\* ----------------------------------------------------------- discovery
discoveryVars == <<fs, dpc, appPaths, todo, infos, reply>>

\* the directories getPossibleAppPaths lists: os.homedir() + '/AppData/Local',
\* 'c:/Program Files', 'c:/Program Files (x86)' on win32, '/Applications' on
\* darwin
Roots(plat) ==
    CASE plat = "win32" -> <<"AppData/Local", "Program Files", "Program Files (x86)">>
      [] plat = "darwin" -> <<"/Applications">>
      [] OTHER -> <<>>

AllRoots == {"AppData/Local", "Program Files", "Program Files (x86)", "/Applications"}

\* What an entry of an install root can be: "electron", an Electron app whose
\* metadata can be read; "broken", an Electron app whose Info.plist or icon
\* cannot be read or parsed; "other", the directory of an application not
\* built on Electron; "file", a regular file.
Files == {"electron", "broken", "other", "file"}

\* What a path is found to be when it is read: other processes change the
\* file system while the handler waits, so an entry may have become another
\* or be gone ("missing").
EntryStates == Files \cup {"missing"}

\* the sequences of different files
FileLists ==
    {<<>>} \cup {<<a>> : a \in Files}
           \cup {l \in {<<a, b>> : a \in Files, b \in Files} : l[1] # l[2]}

\* what fs.promises.readdir(dir) yields: the files, or a failure (missing
\* directory, permission denied, not a directory)
FailedListing == [ok |-> FALSE, files |-> <<>>]

DirListings == {FailedListing} \cup {[ok |-> TRUE, files |-> l] : l \in FileLists}

RECURSIVE Flat(_)
Flat(ss) == IF ss = <<>> THEN <<>> ELSE Head(ss) \o Flat(Tail(ss))

\* Mutant: the failure of readdir is not caught.
readdirAbsoluteUncaught(dir, listing) ==
    [thrown |-> ~listing.ok,
     paths |-> [k \in 1..Len(listing.files) |-> <<dir, listing.files[k]>>]]

\* readdirAbsolute(dir): path.join(dir, file) for every file, [] if readdir
\* fails
readdirAbsolute(dir, listing) ==
    [thrown |-> FALSE,
     paths |-> IF listing.ok
                 THEN [k \in 1..Len(listing.files) |-> <<dir, listing.files[k]>>]
                 ELSE <<>>]

\* getPossibleAppPaths, default: return []
UnhandledPaths == [thrown |-> FALSE, paths |-> <<>>]

\* getPossibleAppPaths(): Promise.all over the roots, then flat()
getPossibleAppPaths(plat, f) ==
    IF plat \in {"win32", "darwin"}
      THEN LET rs == [k \in 1..Len(Roots(plat)) |->
                        readdirAbsolute(Roots(plat)[k], f[Roots(plat)[k]])]
           IN  [thrown |-> \E k \in 1..Len(rs) : rs[k].thrown,
                paths |-> Flat([k \in 1..Len(rs) |-> rs[k].paths])]
      ELSE UnhandledPaths

\* isElectronApp(appPath), appPath being `state` when it is read: the runtime
\* is found under the path.  win32 catches what readdir throws (not a
\* directory, missing) and gives false; existsSync never throws; an
\* unhandled platform gives false.
isElectronApp(plat, state) ==
    IF plat \in {"win32", "darwin"}
      THEN state \in {"electron", "broken"}
      ELSE FALSE

\* What info.CFBundleIdentifier can be: the identifier the Info.plist gives,
\* which two bundles can share, or undefined if the plist has none (the
\* reduce of the handler then uses the key "undefined"), or any other string
\* of the plist, "__proto__" among them.
BundleIds == {"com.a", "com.b", "undefined", "__proto__"}

\* getAppInfo(appPath), appPath being `state` when it is read and, on darwin,
\* its Info.plist giving the identifier `ident`.  win32 lists the directory,
\* outside any try/catch, and reads no manifest: it throws if the path
\* cannot be listed.  darwin reads and parses Info.plist and the icon, and
\* throws if it cannot.  Any other platform throws.  The id is v4() on win32
\* (n-th one of the scan) and info.CFBundleIdentifier on darwin.
getAppInfo(plat, path, state, n, ident) ==
    CASE plat = "win32" ->
            [thrown |-> state \in {"file", "missing"},
             info |-> [id |-> <<"uuid", n>>, appPath |-> path]]
      [] plat = "darwin" ->
            [thrown |-> state \in {"broken", "file", "missing"},
             info |-> [id |-> <<"bundle", ident>>, appPath |-> path]]
      [] OTHER ->
            [thrown |-> TRUE, info |-> [id |-> <<"none", n>>, appPath |-> path]]

\* infos.reduce((a, b) => { a[b.id] = b; return a }, {}): a later info
\* replaces an earlier one of the same id.  The accumulator is a plain object,
\* so a["__proto__"] = b sets its prototype and adds no key.
ToDict(is) ==
    [id \in {is[k].id : k \in 1..Len(is)} \ {<<"bundle", "__proto__">>} |->
        is[CHOOSE k \in 1..Len(is) :
              is[k].id = id /\ \A m \in 1..Len(is) : is[m].id = id => m <= k]]

\* discovery is not run
NoDiscovery ==
    /\ fs = [r \in AllRoots |-> FailedListing]
    /\ dpc = "idle"
    /\ appPaths = <<>>
    /\ todo = <<>>
    /\ infos = <<>>
    /\ reply = <<>>

\* what an endpoint's /json may return: a list of targets
TargetLists == {<<>>, <<"a">>, <<"b">>}

\* -------------------------------------------------------------- window
\* the state of every call before startDebugging is called
InitCalls ==
    /\ held = {}
    /\ calls = 0
    /\ pc = [i \in Sessions |-> "notcalled"]
    /\ ports = [i \in Sessions |-> <<>>]
    /\ proc = [i \in Sessions |-> "none"]
    /\ fetched = [i \in Sessions |-> FALSE]
    /\ pending = [i \in Sessions |-> 0]
    /\ rounds = [i \in Sessions |-> 0]
    /\ probe = [i \in Sessions |-> "none"]
    /\ errChunks = [i \in Sessions |-> 0]
    /\ outChunks = [i \in Sessions |-> 0]
    /\ events = [i \in Sessions |-> <<>>]
    /\ logs = [i \in Sessions |-> [stdout |-> <<>>, stderr |-> <<>>]]
    /\ uncaught = [i \in Sessions |-> {}]
    /\ instanceId = [i \in Sessions |-> <<>>]
    /\ tags = [i \in Sessions |-> {}]
    /\ json = [i \in Sessions |-> <<>>]
    /\ pages = [i \in Sessions |-> <<>>]

Init ==
    /\ platform \in Platforms
    /\ app = "loading"
    /\ mainWindow = FALSE
    /\ poolSize \in {NumPorts - 3, NumPorts}
    /\ targets = <<(<<"a">>), (<<"b">>)>>
    /\ InitCalls
    /\ NoDiscovery

sessionVars == <<held, calls, pc, ports, proc, fetched, pending, rounds, probe,
                 errChunks, outChunks, events, logs, uncaught, instanceId,
                 tags, json, pages>>

\* app.on('ready', createWindow)
AppReady ==
    /\ app = "loading"
    /\ app' = "ready"
    /\ mainWindow' = TRUE
    /\ UNCHANGED <<discoveryVars, platform, targets, poolSize, sessionVars>>

\* mainWindow.on('closed'): mainWindow = null, and nothing else; the children
\* keep their handlers and the timers stay set
WindowClosed ==
    /\ app = "ready"
    /\ mainWindow
    /\ mainWindow' = FALSE
    /\ UNCHANGED <<discoveryVars, platform, targets, app, poolSize, sessionVars>>

\* app.on('window-all-closed'), emitted once the window has closed:
\* app.quit() unless the platform is darwin.  app.quit() only asks Electron to
\* shut down and returns to the event loop.
WindowAllClosed ==
    /\ app = "ready"
    /\ mainWindow = FALSE
    /\ app' = IF platform # "darwin" THEN "quitting" ELSE app
    /\ UNCHANGED <<discoveryVars, platform, targets, mainWindow, poolSize, sessionVars>>

\* Electron ends the process, in a task after the one that called app.quit()
AppQuit ==
    /\ app = "quitting"
    /\ app' = "quit"
    /\ UNCHANGED <<discoveryVars, platform, targets, mainWindow, poolSize, sessionVars>>

\* callbacks run until the process has ended
AppRuns == app \in {"ready", "quitting"}

\* app.on('activate'): emitted on darwin only; createWindow() if mainWindow
\* is null, nothing otherwise
Activate ==
    /\ app = "ready"
    /\ platform = "darwin"
    /\ mainWindow = FALSE
    /\ mainWindow' = TRUE
    /\ UNCHANGED <<discoveryVars, platform, targets, app, poolSize, sessionVars>>

\* ------------------------------------------------------- startDebugging
\* v4() of the uuid package: an identifier no other call of v4() returns.
\* Identifiers are only ever compared, so the one generated in call i of
\* startDebugging is named i.
v4(i) == i

\* mainWindow!.webContents.send(...): a TypeError when mainWindow is null
Reject(i, err) ==
    /\ pc' = [pc EXCEPT ![i] = "rejected"]
    /\ uncaught' = [uncaught EXCEPT ![i] = @ \cup {err}]

\* What spawn(executable, ...) does: "ok", a child runs; "error", it returns
\* a child that emits 'error' (ENOENT, EACCES), for which no handler is
\* registered; "throws", it throws synchronously (ENOTDIR, ENAMETOOLONG,
\* ELOOP, ...).
SpawnOutcomes == {"ok", "error", "throws"}

\* Mutant: the handlers are registered without appPrepare having been sent.
SpawnAndPrepareSilent(i, spawned) ==
    IF spawned = "throws"
      THEN /\ Reject(i, "spawnThrew")
           /\ UNCHANGED <<proc, events, instanceId, tags>>
      ELSE /\ proc' = [proc EXCEPT ![i] =
                         IF spawned = "ok" THEN "alive" ELSE "spawnerror"]
           /\ instanceId' = [instanceId EXCEPT ![i] = <<v4(i)>>]
           /\ pc' = [pc EXCEPT ![i] = "returned"]
           /\ uncaught' = [uncaught EXCEPT ![i] =
                             @ \cup (IF spawned = "ok" THEN {} ELSE {"spawnError"})]
           /\ UNCHANGED <<events, tags>>

\* Lines 197-237: spawn, then appPrepare, then the handlers are registered.
\* A spawn that throws ends startDebugging at line 197, as a rejection
\* nothing handles: no identifier, no appPrepare, no handler.
SpawnAndPrepare(i, spawned) ==
    IF spawned = "throws"
      THEN /\ Reject(i, "spawnThrew")
           /\ UNCHANGED <<proc, events, instanceId, tags>>
      ELSE
    LET spawnErr == IF spawned = "ok" THEN {} ELSE {"spawnError"}
    IN  /\ proc' = [proc EXCEPT ![i] =
                      IF spawned = "ok" THEN "alive" ELSE "spawnerror"]
        /\ instanceId' = [instanceId EXCEPT ![i] = <<v4(i)>>]
        /\ IF mainWindow
             THEN /\ events' = [events EXCEPT ![i] = Append(@, "appPrepare")]
                  /\ tags' = [tags EXCEPT ![i] = @ \cup {v4(i)}]
                  /\ pc' = [pc EXCEPT ![i] = "returned"]
                  /\ uncaught' = [uncaught EXCEPT ![i] = @ \cup spawnErr]
             ELSE /\ events' = events
                  /\ tags' = tags
                  /\ pc' = [pc EXCEPT ![i] = "rejected"]
                  /\ uncaught' = [uncaught EXCEPT ![i] =
                                    @ \cup spawnErr \cup {"nullWindow"}]

\* ipcMain.on(EventName.startDebugging): the renderer sends the command, so a
\* window exists when it arrives.  The function runs synchronously up to its
\* first await that waits for I/O (readdir on darwin).
StartDebugging(isExe, spawned) ==
    /\ app = "ready"
    /\ mainWindow
    /\ calls < MaxLaunch
    /\ LET i == calls + 1
           acq == AcquirePorts(held, poolSize)
       IN  /\ calls' = i
           /\ held' = acq.held
           /\ ports' = [ports EXCEPT ![i] = acq.ports]
           /\ IF ~BothAcquired(acq)
                THEN /\ Reject(i, "poolExhausted")
                     /\ UNCHANGED <<proc, events, instanceId, tags>>
                ELSE IF isExe \/ platform = "win32"
                THEN SpawnAndPrepare(i, spawned)
                ELSE IF platform = "darwin"
                THEN /\ pc' = [pc EXCEPT ![i] = "awaitExecutable"]
                     /\ UNCHANGED <<proc, events, uncaught, instanceId,
                                    tags>>
                ELSE /\ Reject(i, "resolveFailed")
                     /\ UNCHANGED <<proc, events, instanceId, tags>>
    /\ UNCHANGED <<discoveryVars, platform, targets, app, mainWindow, poolSize, fetched, pending,
                   rounds, probe, errChunks, outChunks, logs, json, pages>>

\* the continuation after `await getExecutable(appPath)`
ExecutableResolved(i, listing, spawned) ==
    /\ AppRuns
    /\ pc[i] = "awaitExecutable"
    /\ IF getExecutable(platform, listing) = "resolved"
         THEN SpawnAndPrepare(i, spawned)
         ELSE /\ Reject(i, "resolveFailed")
              /\ UNCHANGED <<proc, events, instanceId, tags>>
    /\ UNCHANGED <<discoveryVars, platform, targets, app, mainWindow, poolSize, held, calls, ports,
                   fetched, pending, rounds, probe, errChunks, outChunks,
                   logs, json, pages>>

\* ----------------------------------------------------------- handlers
\* A handler of a child runs only if startDebugging got as far as
\* registering it, and until the process of the app has ended.
Registered(i) == AppRuns /\ pc[i] = "returned"

\* Mutant: `instanceId` is one variable of the module, shared by all calls:
\* a handler reads the identifier of the latest call that generated one.
ClosureIdShared(i) ==
    LET made == {j \in Sessions : instanceId[j] # <<>>}
    IN  instanceId[CHOOSE j \in made : \A k \in made : k <= j][1]

\* the `instanceId` a handler of call i reads: the `let` of its own call
ClosureId(i) == instanceId[i][1]

\* mainWindow!.webContents.send(EventName.log, instanceId, data); data is the
\* n-th chunk of its stream
SendLog(i, stream, n) ==
    IF mainWindow
      THEN /\ logs' = [logs EXCEPT ![i][stream] = Append(@, <<stream, n>>)]
           /\ tags' = [tags EXCEPT ![i] = @ \cup {ClosureId(i)}]
           /\ UNCHANGED uncaught
      ELSE /\ uncaught' = [uncaught EXCEPT ![i] = @ \cup {"nullWindow"}]
           /\ UNCHANGED <<logs, tags>>

\* Mutant: a stdout chunk, too, is taken as the readiness signal.
StdoutDataSchedules(i) ==
    /\ Registered(i)
    /\ proc[i] = "alive"
    /\ Total(outChunks, MaxLaunch) < MaxStdout
    /\ outChunks' = [outChunks EXCEPT ![i] = @ + 1]
    /\ pending' = [pending EXCEPT ![i] = IF fetched[i] THEN @ ELSE @ + 1]
    /\ fetched' = [fetched EXCEPT ![i] = TRUE]
    /\ SendLog(i, "stdout", outChunks[i] + 1)
    /\ UNCHANGED <<discoveryVars, platform, targets, app, mainWindow, poolSize, held, calls, pc,
                   ports, proc, rounds, probe, errChunks, events,
                   instanceId, json, pages>>

\* sp.stdout.on('data'); the data of a stream reaches its handler before
\* 'close', which waits for the streams to end
StdoutData(i) ==
    /\ Registered(i)
    /\ proc[i] = "alive"
    /\ Total(outChunks, MaxLaunch) < MaxStdout
    /\ outChunks' = [outChunks EXCEPT ![i] = @ + 1]
    /\ SendLog(i, "stdout", outChunks[i] + 1)
    /\ UNCHANGED <<discoveryVars, platform, targets, app, mainWindow, poolSize, held, calls, pc,
                   ports, proc, fetched, pending, rounds, probe,
                   errChunks, events, instanceId, json, pages>>

\* Mutant: every stderr chunk sets the timer.
ShouldScheduleAlways(f) == TRUE

\* if (!fetched)
ShouldSchedule(f) == ~f

\* sp.stderr.on('data')
StderrData(i) ==
    /\ Registered(i)
    /\ proc[i] = "alive"
    /\ Total(errChunks, MaxLaunch) < MaxStderr
    /\ errChunks' = [errChunks EXCEPT ![i] = @ + 1]
    /\ IF ShouldSchedule(fetched[i])
         THEN /\ fetched' = [fetched EXCEPT ![i] = TRUE]
              /\ pending' = [pending EXCEPT ![i] = @ + 1]
         ELSE UNCHANGED <<fetched, pending>>
    /\ SendLog(i, "stderr", errChunks[i] + 1)
    /\ UNCHANGED <<discoveryVars, platform, targets, app, mainWindow, poolSize, held, calls, pc,
                   ports, proc, rounds, probe, outChunks, events,
                   instanceId, json, pages>>

\* setTimeout(..., 500) fires once
AfterFire(n) == n - 1

\* The timer callback up to its await: both fetches are issued.  Nothing
\* cancels the timer, so it fires whatever has become of the process: the
\* callback tests nothing before it fetches.
TimerFire(i) ==
    /\ AppRuns
    /\ pending[i] > 0
    /\ pending' = [pending EXCEPT ![i] = AfterFire(@)]
    /\ rounds' = [rounds EXCEPT ![i] = @ + 1]
    /\ probe' = [probe EXCEPT ![i] = "issued"]
    /\ UNCHANGED <<discoveryVars, platform, targets, app, mainWindow, poolSize, held, calls, pc,
                   ports, proc, fetched, errChunks, outChunks, events, logs,
                   uncaught, instanceId, tags, json, pages>>

\* Mutant: only the first fetch is waited for.
PromiseAllFirst(ok0, ok1) == ok0

\* Promise.all over [nodePort, windowPort]: resolves when both fetches (and
\* their res.json()) have resolved, rejects as soon as one rejects.
PromiseAll(ok0, ok1) == ok0 /\ ok1

\* Mutant: the targets of the window port are put first.
MergeReversed(json0, json1) == json1 \o json0

\* [...json0, ...json1]
Merge(json0, json1) == json0 \o json1

\* The rest of the timer callback, after the await.  Nothing catches the
\* rejection of Promise.all, nor the error thrown for a null mainWindow.
\* Each fetch resolves if something answers on its port, to what is served
\* there, whether the child is still running or not (the application may
\* run as a process of its own), and rejects otherwise.
ProbeSettled(i, ok0, ok1) ==
    /\ AppRuns
    /\ probe[i] = "issued"
    /\ IF ~PromiseAll(ok0, ok1)
         THEN /\ probe' = [probe EXCEPT ![i] = "rejected"]
              /\ uncaught' = [uncaught EXCEPT ![i] = @ \cup {"fetchFailed"}]
              /\ UNCHANGED <<events, tags, json, pages>>
         ELSE /\ probe' = [probe EXCEPT ![i] = "resolved"]
              /\ json' = [json EXCEPT ![i] = targets]
              /\ IF mainWindow
                   THEN /\ events' = [events EXCEPT ![i] = Append(@, "appStarted")]
                        /\ tags' = [tags EXCEPT ![i] = @ \cup {ClosureId(i)}]
                        /\ pages' = [pages EXCEPT ![i] = Merge(targets[1], targets[2])]
                        /\ UNCHANGED uncaught
                   ELSE \* throw new Error('main window already destroyed')
                        /\ uncaught' = [uncaught EXCEPT ![i] =
                                          @ \cup {"windowDestroyed"}]
                        /\ UNCHANGED <<events, tags, pages>>
    /\ UNCHANGED <<discoveryVars, platform, targets, app, mainWindow, poolSize, held, calls, pc,
                   ports, proc, fetched, pending, rounds, errChunks,
                   outChunks, logs, instanceId>>

\* sp.on('close'): emitted once, after the process has ended and its streams
\* have closed (after a failed spawn it may or may not be emitted).  The
\* handler sends appClosed and does nothing else.
Close(i) ==
    /\ AppRuns
    /\ proc[i] \in {"alive", "spawnerror"}
    /\ proc' = [proc EXCEPT ![i] = "closed"]
    /\ IF pc[i] # "returned"
         THEN UNCHANGED <<events, tags, uncaught>>
         ELSE IF mainWindow
         THEN /\ events' = [events EXCEPT ![i] = Append(@, "appClosed")]
              /\ tags' = [tags EXCEPT ![i] = @ \cup {ClosureId(i)}]
              /\ UNCHANGED uncaught
         ELSE /\ uncaught' = [uncaught EXCEPT ![i] = @ \cup {"nullWindow"}]
              /\ UNCHANGED <<events, tags>>
    /\ UNCHANGED <<discoveryVars, platform, targets, app, mainWindow, poolSize, held, calls, pc,
                   ports, fetched, pending, rounds, probe, errChunks,
                   outChunks, logs, instanceId, json, pages>>

\* ------------------------------------------------------- specification
Next ==
    \/ AppReady
    \/ WindowClosed
    \/ WindowAllClosed
    \/ AppQuit
    \/ Activate
    \/ \E isExe \in BOOLEAN, spawned \in SpawnOutcomes : StartDebugging(isExe, spawned)
    \/ \E i \in Sessions, l \in Listings, spawned \in SpawnOutcomes :
          ExecutableResolved(i, l, spawned)
    \/ \E i \in Sessions : StdoutData(i)
    \/ \E i \in Sessions : StderrData(i)
    \/ \E i \in Sessions : TimerFire(i)
    \/ \E i \in Sessions, ok0 \in BOOLEAN, ok1 \in BOOLEAN : ProbeSettled(i, ok0, ok1)
    \/ \E i \in Sessions : Close(i)

Spec == Init /\ [][Next]_vars

\* One launch at a time, with every pair of target lists the two endpoints
\* may serve.
InitTargets ==
    /\ platform \in Platforms
    /\ app = "loading"
    /\ mainWindow = FALSE
    /\ poolSize = NumPorts - 2
    /\ targets \in TargetLists \X TargetLists
    /\ InitCalls
    /\ NoDiscovery

SpecTargets == InitTargets /\ [][Next]_vars

\* ------------------------------------------------------------- getApps
windowVars == <<platform, app, mainWindow, poolSize, targets>>

\* ipcMain.on(EventName.getApps), up to the loop:
\* const appPaths = await getPossibleAppPaths()
GetApps ==
    /\ dpc = "idle"
    /\ LET r == getPossibleAppPaths(platform, fs)
       IN  /\ dpc' = IF r.thrown THEN "rejected" ELSE "scanning"
           /\ appPaths' = IF r.thrown THEN <<>> ELSE r.paths
           /\ todo' = IF r.thrown THEN <<>> ELSE r.paths
    /\ infos' = <<>>
    /\ UNCHANGED <<fs, reply, windowVars, sessionVars>>

\* A turn of the loop up to the end of `await isElectronApp(p)`, which finds
\* the path to be `seen`: the next turn follows if it is refused, the call of
\* getAppInfo if it is accepted.
VisitCandidate(seen) ==
    /\ dpc = "scanning"
    /\ todo # <<>>
    /\ IF isElectronApp(platform, seen)
         THEN /\ dpc' = "accepted"
              /\ UNCHANGED todo
         ELSE /\ todo' = Tail(todo)
              /\ UNCHANGED dpc
    /\ UNCHANGED <<fs, appPaths, infos, reply, windowVars, sessionVars>>

\* The rest of the turn: infos.push(await getAppInfo(p)), which finds the
\* path to be `now` and its identifier to be `ident`.  Nothing catches what
\* getAppInfo throws: the handler ends there, without having set
\* e.returnValue.
InfoRead(now, ident) ==
    /\ dpc = "accepted"
    /\ LET r == getAppInfo(platform, Head(todo), now, Len(infos) + 1, ident)
       IN  IF r.thrown
             THEN /\ dpc' = "rejected"
                  /\ UNCHANGED <<todo, infos>>
             ELSE /\ dpc' = "scanning"
                  /\ todo' = Tail(todo)
                  /\ infos' = Append(infos, r.info)
    /\ UNCHANGED <<fs, appPaths, reply, windowVars, sessionVars>>

\* e.returnValue = infos.reduce(...)
Reply ==
    /\ dpc = "scanning"
    /\ todo = <<>>
    /\ reply' = <<ToDict(infos)>>
    /\ dpc' = "replied"
    /\ UNCHANGED <<fs, appPaths, todo, infos, windowVars, sessionVars>>

\* One getApps request, for every platform and every content of its install
\* roots; the window exists (the renderer sends the request) and no process
\* is launched.
InitDiscovery ==
    /\ platform \in Platforms
    /\ app = "ready"
    /\ mainWindow = TRUE
    /\ poolSize = NumPorts
    /\ targets = <<(<<"a">>), (<<"b">>)>>
    /\ InitCalls
    /\ fs \in {f \in [AllRoots -> DirListings] :
                 \A r \in AllRoots \ Range(Roots(platform)) : f[r] = FailedListing}
    /\ dpc = "idle"
    /\ appPaths = <<>>
    /\ todo = <<>>
    /\ infos = <<>>
    /\ reply = <<>>

NextDiscovery ==
    \/ GetApps
    \/ \E seen \in EntryStates : VisitCandidate(seen)
    \/ \E now \in EntryStates, ident \in BundleIds : InfoRead(now, ident)
    \/ Reply

SpecDiscovery == InitDiscovery /\ [][NextDiscovery]_vars

\* --------------------------------------------------------------- claims
Count(seq, e) == Cardinality({k \in 1..Len(seq) : seq[k] = e})

\* a session that was announced (appPrepare) and has not been reported closed
Live(i) == Has(events[i], "appPrepare") /\ ~Has(events[i], "appClosed")

Running(i) == Live(i) /\ Has(events[i], "appStarted") /\ proc[i] = "alive"

\* C1: the lifecycle events of a session are a prefix of appPrepare, appClosed
\* or of appPrepare, appStarted, appClosed: appStarted never follows appClosed
\* and appClosed is sent at most once.
C1_LifecycleOrder ==
    \A i \in Sessions :
        events[i] \in {<<>>, <<"appPrepare">>,
                       <<"appPrepare", "appClosed">>,
                       <<"appPrepare", "appStarted">>,
                       <<"appPrepare", "appStarted", "appClosed">>}

\* C2: once appClosed was sent for a session, neither of its two ports is
\* held by the pool any more.
C2_PortsReleasedOnClose ==
    \A i \in Sessions :
        Has(events[i], "appClosed") => Range(ports[i]) \cap held = {}

\* C3: a live session holds two different ports, and two live sessions have
\* no port in common.
C3_PortsDistinct ==
    \A i \in Sessions : \A j \in Sessions :
        (Live(i) /\ Live(j)) =>
            /\ Len(ports[i]) = 2
            /\ ports[i][1] # ports[i][2]
            /\ i # j => Range(ports[i]) \cap Range(ports[j]) = {}

\* two sessions live at once, each with its pair of ports
C3_Witness ==
    \E i \in Sessions : \E j \in Sessions :
        i # j /\ Live(i) /\ Live(j) /\ Len(ports[i]) = 2 /\ Len(ports[j]) = 2

\* a launch that failed after both ports were acquired
LaunchFailed(i) ==
    /\ Len(ports[i]) = 2
    /\ uncaught[i] \cap {"resolveFailed", "spawnError", "spawnThrew"} # {}

\* C4: a launch that fails after both ports were acquired (executable not
\* resolved, spawn failed) announces no session and leaves neither port held.
C4_FailedLaunchClean ==
    \A i \in Sessions :
        LaunchFailed(i) =>
            /\ events[i] = <<>>
            /\ Range(ports[i]) \cap held = {}

\* C5: a failed endpoint query raises no unhandled error, and appClosed is
\* sent for a session only when its process has closed.
C5_QueryFailureContained ==
    \A i \in Sessions :
        /\ probe[i] = "rejected" => "fetchFailed" \notin uncaught[i]
        /\ Has(events[i], "appClosed") => proc[i] = "closed"

\* C6: once appClosed was sent for a session, its endpoints are not queried
\* again: no step after that starts a round of queries for it.
C6_NoQueryAfterClose ==
    [][\A i \in Sessions :
          Has(events[i], "appClosed") => rounds'[i] = rounds[i]]_vars

\* C7: while a session is running, a further round of queries is always
\* ahead: a timer is armed or a round is in flight.
C7_RequeriedWhileRunning ==
    \A i \in Sessions :
        Running(i) => (pending[i] > 0 \/ probe[i] = "issued")

\* C8: per session at most one timer is ever set (armed plus fired), however
\* many stderr chunks arrive, and appStarted is sent at most once.
C8_ReadinessOnce ==
    \A i \in Sessions :
        /\ pending[i] + rounds[i] <= 1
        /\ Count(events[i], "appStarted") <= 1

\* a session that received two stderr chunks and was reported started
C8_Witness ==
    \E i \in Sessions : errChunks[i] >= 2 /\ Has(events[i], "appStarted")

\* C9: appStarted is sent only for a session that received a stderr chunk; a
\* process that closes without any stderr output is announced, at most
\* reported closed, and never reported started.
C9_StartedOnlyAfterStderr ==
    \A i \in Sessions :
        /\ Has(events[i], "appStarted") => errChunks[i] >= 1
        /\ (pc[i] = "returned" /\ proc[i] = "closed" /\ errChunks[i] = 0) =>
              events[i] \in {<<"appPrepare">>, <<"appPrepare", "appClosed">>}

\* a spawned process that wrote to stdout only and closed
C9_Witness ==
    \E i \in Sessions :
        /\ "spawnError" \notin uncaught[i]
        /\ outChunks[i] >= 1 /\ errChunks[i] = 0
        /\ events[i] = <<"appPrepare", "appClosed">>

\* C10: a process is spawned, and a session announced, only with two ports
\* that the pool handed out and holds; a call whose acquisition failed spawns
\* nothing and announces nothing.
C10_SpawnOnlyWithPorts ==
    \A i \in Sessions :
        /\ (proc[i] # "none" \/ events[i] # <<>>) =>
              (Len(ports[i]) = 2 /\ Range(ports[i]) \subseteq held)
        /\ "poolExhausted" \in uncaught[i] =>
              (proc[i] = "none" /\ events[i] = <<>> /\ pc[i] = "rejected")

\* the pool ran out on the second acquisition of one call and on the first of
\* another
C10_Witness ==
    \E i \in Sessions : \E j \in Sessions :
        /\ "poolExhausted" \in uncaught[i] /\ Len(ports[i]) = 1
        /\ "poolExhausted" \in uncaught[j] /\ Len(ports[j]) = 0

\* a log event was sent for the session
Logged(i) == logs[i].stdout # <<>> \/ logs[i].stderr # <<>>

\* the log events of one stream of a session, in the order sent
StreamLog(i, stream) == logs[i][stream]

\* the chunks 1..n of a stream, in order of arrival
Chunks(stream, n) == [k \in 1..n |-> <<stream, k>>]

\* C11: the log events of each stream of a session are exactly the chunks
\* that arrived on it, each once and in order of arrival.
C11_EveryChunkLogged ==
    \A i \in Sessions :
        /\ StreamLog(i, "stdout") = Chunks("stdout", outChunks[i])
        /\ StreamLog(i, "stderr") = Chunks("stderr", errChunks[i])

\* C12: appPrepare is sent at most once per call, once for every call whose
\* handlers are registered, and it is the first event of the session: no log,
\* appStarted or appClosed is sent before it.
C12_PrepareFirst ==
    \A i \in Sessions :
        /\ Count(events[i], "appPrepare") <= 1
        /\ pc[i] = "returned" => Count(events[i], "appPrepare") = 1
        /\ events[i] # <<>> => events[i][1] = "appPrepare"
        /\ Logged(i) => Has(events[i], "appPrepare")

\* a session that logged output, was reported started and was reported closed
C12_Witness ==
    \E i \in Sessions :
        /\ Logged(i)
        /\ Has(events[i], "appStarted")
        /\ Has(events[i], "appClosed")

\* C13: calls that generated an instanceId have pairwise different ones, and
\* every event sent for a call carries the instanceId of that call.
C13_OwnInstanceId ==
    \A i \in Sessions :
        /\ tags[i] \subseteq Range(instanceId[i])
        /\ \A j \in Sessions :
              (i # j /\ instanceId[i] # <<>> /\ instanceId[j] # <<>>) =>
                  instanceId[i] # instanceId[j]

\* two sessions at once, the earlier one sending events after the later one
\* was launched
C13_Witness ==
    \E i \in Sessions : \E j \in Sessions :
        /\ i < j
        /\ Has(events[j], "appPrepare")
        /\ Logged(i) /\ Logged(j)
        /\ Has(events[i], "appClosed")

\* the roots whose listing succeeds, in the order of the scan
ListedRoots == SelectSeq(Roots(platform), LAMBDA r : fs[r].ok)

\* the entries of the roots rs, root by root
CandidatesOf(rs) ==
    Flat([k \in 1..Len(rs) |->
            [m \in 1..Len(fs[rs[k]].files) |-> <<rs[k], fs[rs[k]].files[m]>>]])

\* C14: on a platform that is neither win32 nor darwin, a discovery that has
\* called the platform-specific operations has ended with an error.
C14_UnsupportedPlatformSurfaced ==
    (platform \notin {"win32", "darwin"} /\ dpc # "idle") => dpc = "rejected"

\* C15: the candidates of a discovery are exactly the entries of the roots
\* whose listing succeeds, a root whose listing fails adding none, and a
\* failed listing does not end the scan: discovery is only ever ended at a
\* candidate, by its metadata.
C15_FailedRootIsEmpty ==
    dpc # "idle" =>
        /\ appPaths = CandidatesOf(ListedRoots)
        /\ dpc = "rejected" => todo # <<>>

\* a discovery has replied with a root that could not be listed and
\* candidates from another root
C15_Witness ==
    /\ dpc = "replied"
    /\ \E k \in 1..Len(Roots(platform)) : ~fs[Roots(platform)[k]].ok
    /\ appPaths # <<>>
    /\ infos # <<>>

\* C16: the pages sent with appStarted are the targets of the nodePort
\* endpoint followed by those of the windowPort endpoint, and appStarted is
\* sent only when both queries have resolved.
C16_PagesMerged ==
    \A i \in Sessions :
        Has(events[i], "appStarted") =>
            /\ probe[i] = "resolved"
            /\ json[i] = targets
            /\ pages[i] = json[i][1] \o json[i][2]

\* a session reported started whose two endpoints serve different, non-empty
\* target lists
C16_Witness ==
    \E i \in Sessions :
        /\ Has(events[i], "appStarted")
        /\ targets[1] # <<>> /\ targets[2] # <<>> /\ targets[1] # targets[2]

\* C17: a getApps handler that has ended has set e.returnValue.
C17_RequestAnswered ==
    dpc \in {"replied", "rejected"} => Len(reply) = 1

\* C18: no callback of a session finds mainWindow null: no send fails on a
\* null mainWindow and the timer callback never throws for a destroyed window.
C18_SendsOnlyWithWindow ==
    \A i \in Sessions :
        uncaught[i] \cap {"nullWindow", "windowDestroyed"} = {}

====
